---- MODULE Spec2Model ----
(***************************************************************************)
(* Interrupt-driven monitor: the systime middleware (tick counter, date,  *)
(* alarm) and the query handler (edit buffer, cursor codes, dispatch).    *)
(***************************************************************************)
EXTENDS Integers, Sequences, FiniteSets, TLC

VARIABLES
    tick,       \* time.systick.counter.value
    date,       \* time.date: [year, month, day]
    alarm,      \* time.systick.countdown: [en, value, cb]
    op,         \* history: the operation that ran last
    ret,        \* history: what that operation returned
    epoch,      \* history: tenths of a second since midnight of the day the time was installed
    rolls,      \* history: day-rollover callbacks since the time was installed
    nticks,     \* history: tick interrupts handled so far
    fired,      \* history: calls of the countdown's callback since the alarm was set
    since,      \* history: tick interrupts handled since the alarm was set
    data,       \* query.buffer.data, the edit buffer's storage
    wr_ptr,     \* query.buffer.wr_ptr, the cursor
    entry_ptr,  \* query.entry_ptr, the length of the entry
    rx,         \* uart.rx, the bytes received and not yet consumed
    wire,       \* the bytes typed and not yet received
    pc,         \* the main loop: "main", or "esc" inside CursorCodeCheck's wait
    keys,       \* history: bursts of bytes typed so far
    disp,       \* history: the last dispatch, [cmd, shown, touched]
    typed,      \* history: the bytes as received, before toupper, by position
    fn,         \* the conversion under test: which function was applied last
    arg,        \* the conversion under test: its input
    val,        \* the conversion under test: its result
    call,       \* the systime call the main loop is inside of, store by store
    torn,       \* history: the rollover callback ran on a date half written
    armed       \* history: the target set_alarm stored last, [target, ran, stale]

tvars == <<tick, date, alarm, op, ret, epoch, rolls, nticks, fired, since>>
qvars == <<data, wr_ptr, entry_ptr, rx, wire, pc, keys, disp, typed>>
cvars == <<fn, arg, val>>
rvars == <<call, torn, armed>>
vars == <<tick, date, alarm, op, ret, epoch, rolls, nticks, fired, since,
          data, wr_ptr, entry_ptr, rx, wire, pc, keys, disp, typed, fn, arg, val,
          call, torn, armed>>

(***************************************************************************)
(* Bounds of the model.                                                    *)
(***************************************************************************)
MaxTicks == 3
MaxKeys == 3
RxDepth == 2

(***************************************************************************)
(* systime.h                                                               *)
(***************************************************************************)
TSEC_IN_SEC == 10
SEC_IN_MIN == 60
MIN_IN_HOUR == 60
HOUR_IN_DAY == 24
MONTH_IN_YEAR == 12
MAX_YEAR == 9999

TSEC_IN_MIN == TSEC_IN_SEC * SEC_IN_MIN
TSEC_IN_HOUR == TSEC_IN_MIN * MIN_IN_HOUR
TSEC_IN_DAY == TSEC_IN_HOUR * HOUR_IN_DAY

\* uint8_t and uint16_t wrap at these.  The uint32_t quantities of the program
\* (tick counts of clocks whose fields are uint8_t) stay below 2^24, so their
\* sums and differences never wrap; the one exception is the countdown, below.
U8 == 256
U16 == 65536

\* IS_LEAP_YR without the exception for centuries
IS_LEAP_YR_Julian(yr) == (yr % 4 = 0)

IS_LEAP_YR(yr) == (yr % 4 = 0) /\ ((yr % 400 = 0) \/ (yr % 100 # 0))

(***************************************************************************)
(* systime.c                                                               *)
(***************************************************************************)
MONTH_DAYS ==
    << <<31, 28, 31, 30, 31, 30, 31, 31, 30, 31, 30, 31>>,
       <<31, 29, 31, 30, 31, 30, 31, 31, 30, 31, 30, 31>> >>

\* month is 0-based here, as in the C array
DaysInMonth(month, year) ==
    MONTH_DAYS[IF IS_LEAP_YR(year) THEN 2 ELSE 1][month + 1]

Clock(h, m, s, t) == [hour |-> h, min |-> m, sec |-> s, t_sec |-> t]
Date(y, m, d) == [year |-> y, month |-> m, day |-> d]

\* systime_ConvertClock with the hours scaled as minutes
systime_ConvertClock_HourAsMin(clock) ==
    (clock.t_sec
     + clock.sec * TSEC_IN_SEC
     + clock.min * TSEC_IN_MIN
     + clock.hour * TSEC_IN_MIN)

systime_ConvertClock(clock) ==
    (clock.t_sec
     + clock.sec * TSEC_IN_SEC
     + clock.min * TSEC_IN_MIN
     + clock.hour * TSEC_IN_HOUR)

\* every field is stored into a uint8_t
systime_ConvertTickCounter(t_count) ==
    LET hour == (t_count \div TSEC_IN_HOUR) % U8
        t1 == t_count - TSEC_IN_HOUR * hour
        min == (t1 \div TSEC_IN_MIN) % U8
        t2 == t1 - TSEC_IN_MIN * min
        sec == (t2 \div TSEC_IN_SEC) % U8
        t3 == t2 - TSEC_IN_SEC * sec
    IN  Clock(hour, min, sec, t3 % U8)

\* systime_SetTime with the hour compared by <= instead of <
systime_SetTime_HourLeq(value, new_clock) ==
    IF /\ new_clock.t_sec < TSEC_IN_SEC
       /\ new_clock.sec < SEC_IN_MIN
       /\ new_clock.min < MIN_IN_HOUR
       /\ new_clock.hour <= HOUR_IN_DAY
    THEN [ret |-> TRUE, value |-> systime_ConvertClock(new_clock)]
    ELSE [ret |-> FALSE, value |-> value]

\* the result: what is returned, and the counter value afterwards
systime_SetTime(value, new_clock) ==
    IF /\ new_clock.t_sec < TSEC_IN_SEC
       /\ new_clock.sec < SEC_IN_MIN
       /\ new_clock.min < MIN_IN_HOUR
       /\ new_clock.hour < HOUR_IN_DAY
    THEN [ret |-> TRUE, value |-> systime_ConvertClock(new_clock)]
    ELSE [ret |-> FALSE, value |-> value]

systime_GetTime(value) == systime_ConvertTickCounter(value)

\* systime_SetDate reading the leap-year row of MONTH_DAYS whatever the year
systime_SetDate_LeapRow(cur, new_date) ==
    IF /\ new_date.year < MAX_YEAR
       /\ new_date.month > 0
       /\ new_date.month <= MONTH_IN_YEAR
       /\ new_date.day > 0
       /\ new_date.day <= MONTH_DAYS[2][new_date.month]
    THEN [ret |-> TRUE, date |-> new_date]
    ELSE [ret |-> FALSE, date |-> cur]

\* systime_SetDate with the year compared by <= instead of <
systime_SetDate_YearLeq(cur, new_date) ==
    IF /\ new_date.year <= MAX_YEAR
       /\ new_date.month > 0
       /\ new_date.month <= MONTH_IN_YEAR
       /\ new_date.day > 0
       /\ new_date.day <= DaysInMonth(new_date.month - 1, new_date.year)
    THEN [ret |-> TRUE, date |-> new_date]
    ELSE [ret |-> FALSE, date |-> cur]

\* systime_SetDate storing the date before it has validated it
systime_SetDate_StoreFirst(cur, new_date) ==
    [ret |-> /\ new_date.year < MAX_YEAR
             /\ new_date.month > 0 /\ new_date.month <= MONTH_IN_YEAR
             /\ new_date.day > 0
             /\ new_date.day <= DaysInMonth(new_date.month - 1, new_date.year),
     date |-> new_date]

systime_SetDate(cur, new_date) ==
    IF /\ new_date.year < MAX_YEAR
       /\ new_date.month > 0
       /\ new_date.month <= MONTH_IN_YEAR
       /\ new_date.day > 0
       /\ new_date.day <= DaysInMonth(new_date.month - 1, new_date.year)
    THEN [ret |-> TRUE, date |-> new_date]
    ELSE [ret |-> FALSE, date |-> cur]

systime_GetDate(cur) == cur

systime_SetAlarm(alarm_clock, alarm_cb) ==
    [ret |-> TRUE,
     countdown |-> [cb |-> alarm_cb,
                    value |-> systime_ConvertClock(alarm_clock),
                    en |-> TRUE]]

\* systime_ClearAlarm zeroing the countdown and leaving it enabled
systime_ClearAlarm_ZeroValue(countdown) == [countdown EXCEPT !.value = 0]

systime_ClearAlarm(countdown) == [countdown EXCEPT !.en = FALSE]

\* systime_IncDate_callback leaving the month one day early
systime_IncDate_callback_DayGeq(d) ==
    LET day1 == (d.day + 1) % U8
    IN  IF day1 >= DaysInMonth(d.month - 1, d.year)
        THEN LET month1 == (d.month + 1) % U8
             IN  IF month1 > MONTH_IN_YEAR
                 THEN Date((d.year + 1) % U16, 1, 1)
                 ELSE Date(d.year, month1, 1)
        ELSE Date(d.year, d.month, day1)

systime_IncDate_callback(d) ==
    LET day1 == (d.day + 1) % U8
    IN  IF day1 > DaysInMonth(d.month - 1, d.year)
        THEN LET month1 == (d.month + 1) % U8
             IN  IF month1 > MONTH_IN_YEAR
                 THEN Date((d.year + 1) % U16, 1, 1)
                 ELSE Date(d.year, month1, 1)
        ELSE Date(d.year, d.month, day1)

\* what systime_init hands to the systick driver
counter_cmp_en == TRUE
\* the comparator set one tick late
counter_cmp_Late == TSEC_IN_DAY + 1
counter_cmp == TSEC_IN_DAY
counter_cb(d) == systime_IncDate_callback(d)

systime_init ==
    /\ date = Date(0, 1, 1)
    /\ tick = 0
    /\ alarm = [en |-> FALSE, value |-> 0, cb |-> "NULL"]

(***************************************************************************)
(* The systick driver's interrupt: one more tick on the counter, the       *)
(* comparator and its callback, and the countdown.                         *)
(***************************************************************************)
CounterHit(value) == counter_cmp_en /\ value + 1 = counter_cmp

SysTick_Counter(value) == IF CounterHit(value) THEN 0 ELSE value + 1

\* the countdown's value is kept as its 32-bit pattern read in two's complement:
\* 0 - 1 is -1, which stands for 0xFFFFFFFF
\* the countdown reaches 0 on this tick, and its callback is called
CountdownHit(countdown) == countdown.en /\ countdown.value - 1 = 0

SysTick_Countdown(countdown) ==
    IF countdown.en
    THEN [countdown EXCEPT !.value = countdown.value - 1]
    ELSE countdown

(***************************************************************************)
(* Characters.  A byte is a one-character string, or the name of a         *)
(* control character.                                                      *)
(***************************************************************************)
NUL == "NUL"
LowerCase == <<"a", "b", "c", "d", "e", "f", "g", "h", "i", "j", "k", "l", "m",
               "n", "o", "p", "q", "r", "s", "t", "u", "v", "w", "x", "y", "z">>
UpperCase == <<"A", "B", "C", "D", "E", "F", "G", "H", "I", "J", "K", "L", "M",
               "N", "O", "P", "Q", "R", "S", "T", "U", "V", "W", "X", "Y", "Z">>
Digits == <<"0", "1", "2", "3", "4", "5", "6", "7", "8", "9">>

toupper(c) ==
    IF \E k \in 1..26 : LowerCase[k] = c
    THEN UpperCase[CHOOSE k \in 1..26 : LowerCase[k] = c]
    ELSE c

isspace(c) == c \in {" ", "TAB", "LF", "VT", "FF", "CR"}
isdigit(c) == \E k \in 1..10 : Digits[k] = c
DigitVal(c) == (CHOOSE k \in 1..10 : Digits[k] = c) - 1

(***************************************************************************)
(* The edit buffer's storage.  Capacity is the number of bytes of          *)
(* query.buffer.data; enqueuec_s stores at the write pointer and refuses   *)
(* at capacity.                                                            *)
(***************************************************************************)
Capacity == 16

\* enqueuec_s(&query.buffer, c, false): [ok, data, wr_ptr]
enqueuec_s(d, wr, c) ==
    IF wr < Capacity
    THEN [ok |-> TRUE, data |-> [d EXCEPT ![wr] = c], wr_ptr |-> wr + 1]
    ELSE [ok |-> FALSE, data |-> d, wr_ptr |-> wr]

\* What QueryCheck addresses through query_str: the storage, then the bytes that
\* follow it in memory (the first is b, whatever the build left there).
Mem(d, b) ==
    [k \in 0..(Capacity + 1) |->
        IF k < Capacity THEN d[k] ELSE IF k = Capacity THEN b ELSE NUL]

\* the C string at mem + p
RECURSIVE CStr(_, _)
CStr(mem, p) ==
    IF p > Capacity + 1 \/ mem[p] = NUL
    THEN <<>>
    ELSE <<mem[p]>> \o CStr(mem, p + 1)

(***************************************************************************)
(* sscanf, for the two formats the query handler uses.  A scan is          *)
(* [ok, val, pos]: whether the conversion matched, what it stored and      *)
(* where the input continues.                                              *)
(***************************************************************************)
RECURSIVE SkipSpace(_, _)
SkipSpace(s, p) ==
    IF p <= Len(s) /\ isspace(s[p]) THEN SkipSpace(s, p + 1) ELSE p

\* the digits of s from p, at most w of them: [val, pos]
\* (the value is kept modulo the width of the integer it is stored into)
RECURSIVE ScanDigits(_, _, _, _, _)
ScanDigits(s, p, w, acc, modulus) ==
    IF w > 0 /\ p <= Len(s) /\ isdigit(s[p])
    THEN ScanDigits(s, p + 1, w - 1, (acc * 10 + DigitVal(s[p])) % modulus, modulus)
    ELSE [val |-> acc, pos |-> p]

\* %<w>u into an unsigned integer of the given modulus: leading white space is
\* skipped, a sign counts in the width, and at least one digit must follow.
\* p is where the field starts, q where its digits start, r the digits.
ScanResult(s, p, q, r, modulus) ==
    IF r.pos = q
    THEN [ok |-> FALSE, eof |-> p > Len(s), val |-> 0, pos |-> p]
    ELSE [ok |-> TRUE, eof |-> FALSE,
          val |-> IF q > p /\ s[p] = "-"
                  THEN (modulus - r.val) % modulus
                  ELSE r.val,
          pos |-> r.pos]

ScanField(s, p, w, modulus) ==
    IF p <= Len(s) /\ s[p] \in {"+", "-"}
    THEN ScanResult(s, p, p + 1, ScanDigits(s, p + 1, w - 1, 0, modulus), modulus)
    ELSE ScanResult(s, p, p, ScanDigits(s, p, w, 0, modulus), modulus)

ScanUnsigned(s, p0, w, modulus) == ScanField(s, SkipSpace(s, p0), w, modulus)

\* the characters of s from p that are not white space, at most w of them
RECURSIVE ScanWord(_, _, _)
ScanWord(s, p, w) ==
    IF w > 0 /\ p <= Len(s) /\ ~isspace(s[p])
    THEN <<s[p]>> \o ScanWord(s, p + 1, w - 1)
    ELSE <<>>

Literal(s, p, c) == p <= Len(s) /\ s[p] = c

AnyWidth == Capacity + 2

\* sscanf(str, "%2hhu:%2hhu:%2hhu.%1hhu", &hour, &min, &sec, &t_sec):
\* [n, clock], n the number of fields stored (-1 for EOF)
ClockTsec(s, h, m, sc, t) ==
    IF ~t.ok
    THEN [n |-> 3, clock |-> Clock(h.val, m.val, sc.val, 0)]
    ELSE [n |-> 4, clock |-> Clock(h.val, m.val, sc.val, t.val)]

ClockSec(s, h, m, sc) ==
    IF ~sc.ok
    THEN [n |-> 2, clock |-> Clock(h.val, m.val, 0, 0)]
    ELSE IF ~Literal(s, sc.pos, ".")
         THEN [n |-> 3, clock |-> Clock(h.val, m.val, sc.val, 0)]
         ELSE ClockTsec(s, h, m, sc, ScanUnsigned(s, sc.pos + 1, 1, U8))

ClockMin(s, h, m) ==
    IF ~m.ok
    THEN [n |-> 1, clock |-> Clock(h.val, 0, 0, 0)]
    ELSE IF ~Literal(s, m.pos, ":")
         THEN [n |-> 2, clock |-> Clock(h.val, m.val, 0, 0)]
         ELSE ClockSec(s, h, m, ScanUnsigned(s, m.pos + 1, 2, U8))

ClockHour(s, h) ==
    IF ~h.ok
    THEN [n |-> IF h.eof THEN -1 ELSE 0, clock |-> Clock(0, 0, 0, 0)]
    ELSE IF ~Literal(s, h.pos, ":")
         THEN [n |-> 1, clock |-> Clock(h.val, 0, 0, 0)]
         ELSE ClockMin(s, h, ScanUnsigned(s, h.pos + 1, 2, U8))

sscanf_clock(s) == ClockHour(s, ScanUnsigned(s, 1, 2, U8))

\* sscanf(str, "%hhu-%3s-%hu", &day, month_str, &year): [n, day, month_str, year]
DateYear(s, d, w, y) ==
    IF ~y.ok
    THEN [n |-> 2, day |-> d.val, month_str |-> w, year |-> 0]
    ELSE [n |-> 3, day |-> d.val, month_str |-> w, year |-> y.val]

DateMonth(s, d, wp, w) ==
    IF w = <<>>
    THEN [n |-> 1, day |-> d.val, month_str |-> <<>>, year |-> 0]
    ELSE IF ~Literal(s, wp + Len(w), "-")
         THEN [n |-> 2, day |-> d.val, month_str |-> w, year |-> 0]
         ELSE DateYear(s, d, w, ScanUnsigned(s, wp + Len(w) + 1, AnyWidth, U16))

DateWord(s, d, wp) == DateMonth(s, d, wp, ScanWord(s, wp, 3))

DateDay(s, d) ==
    IF ~d.ok
    THEN [n |-> IF d.eof THEN -1 ELSE 0, day |-> 0, month_str |-> <<>>, year |-> 0]
    ELSE IF ~Literal(s, d.pos, "-")
         THEN [n |-> 1, day |-> d.val, month_str |-> <<>>, year |-> 0]
         ELSE DateWord(s, d, SkipSpace(s, d.pos + 1))

sscanf_date(s) == DateDay(s, ScanUnsigned(s, 1, AnyWidth, U8))

(***************************************************************************)
(* query_handler.c: dispatch of a committed line.  The engine is           *)
(* [tick, date, alarm]; a setter gives [valid, eng, shown], shown being    *)
(* what it prints.                                                         *)
(***************************************************************************)
VALID_DATE_SCAN == 3
VALID_TIME_SCAN == 4
VALID_ALARM_SCAN == VALID_TIME_SCAN

MONTHS ==
    << <<"J", "A", "N">>, <<"F", "E", "B">>, <<"M", "A", "R">>, <<"A", "P", "R">>,
       <<"M", "A", "Y">>, <<"J", "U", "N">>, <<"J", "U", "L">>, <<"A", "U", "G">>,
       <<"S", "E", "P">>, <<"O", "C", "T">>, <<"N", "O", "V">>, <<"D", "E", "C">> >>

TIME_QUERY == <<"T", "I", "M", "E">>
DATE_QUERY == <<"D", "A", "T", "E">>
ALARM_QUERY == <<"A", "L", "A", "R", "M">>

Nothing == [what |-> "nothing"]

\* memcmp(month_str, MONTHS[i], 3) over the three bytes %3s left (a NUL after
\* a shorter word)
FindMonthValue(month_str) ==
    LET bytes == [k \in 1..3 |-> IF k <= Len(month_str) THEN month_str[k] ELSE NUL]
        found == {i \in 0..(MONTH_IN_YEAR - 1) : MONTHS[i + 1] = bytes}
    IN  IF found = {} THEN MONTH_IN_YEAR
        ELSE CHOOSE i \in found : \A j \in found : i <= j

\* r is what systime_SetTime did, called once the scan was found valid
SetTime_called(eng, clock_temp, r) ==
    [valid |-> r.ret,
     eng |-> [eng EXCEPT !.tick = r.value],
     shown |-> IF r.ret THEN [what |-> "time", clock |-> clock_temp] ELSE Nothing]

SetTime_scanned(eng, sc) ==
    IF sc.n = VALID_TIME_SCAN
    THEN SetTime_called(eng, sc.clock, systime_SetTime(eng.tick, sc.clock))
    ELSE [valid |-> FALSE, eng |-> eng, shown |-> Nothing]

SetTime(eng, new_time_str) == SetTime_scanned(eng, sscanf_clock(new_time_str))

DisplayTime(eng) == [what |-> "time", clock |-> systime_GetTime(eng.tick)]

\* r is what systime_SetDate did, called once the scan was found valid
SetDate_called(eng, date_temp, r) ==
    [valid |-> r.ret,
     eng |-> [eng EXCEPT !.date = r.date],
     shown |-> IF r.ret THEN [what |-> "date", date |-> date_temp] ELSE Nothing]

SetDate_temp(eng, n, date_temp) ==
    IF n = VALID_DATE_SCAN
    THEN SetDate_called(eng, date_temp, systime_SetDate(eng.date, date_temp))
    ELSE [valid |-> FALSE, eng |-> eng, shown |-> Nothing]

SetDate_scanned(eng, sc) ==
    SetDate_temp(eng, sc.n,
                 Date(sc.year, (FindMonthValue(sc.month_str) + 1) % U8, sc.day))

SetDate(eng, new_date_str) == SetDate_scanned(eng, sscanf_date(new_date_str))

DisplayDate(eng) == [what |-> "date", date |-> systime_GetDate(eng.date)]

\* the time SetAlarm prints: the entered clock plus the current time, field by
\* field in uint8_t, then the carries
AlarmAt(clock_temp, current_time) ==
    LET t0 == (clock_temp.t_sec + current_time.t_sec) % U8
        s0 == (clock_temp.sec + current_time.sec) % U8
        m0 == (clock_temp.min + current_time.min) % U8
        h0 == (clock_temp.hour + current_time.hour) % U8
        t1 == IF t0 > TSEC_IN_SEC THEN (t0 - TSEC_IN_SEC) % U8 ELSE t0
        s1 == IF t0 > TSEC_IN_SEC THEN (s0 + 1) % U8 ELSE s0
        s2 == IF s1 > SEC_IN_MIN THEN (s1 - SEC_IN_MIN) % U8 ELSE s1
        m1 == IF s1 > SEC_IN_MIN THEN (m0 + 1) % U8 ELSE m0
        m2 == IF m1 > MIN_IN_HOUR THEN (m1 - MIN_IN_HOUR) % U8 ELSE m1
        h1 == IF m1 > MIN_IN_HOUR THEN (h0 + 1) % U8 ELSE h0
    IN  Clock(h1 % HOUR_IN_DAY, m2, s2, t1)

SetAlarm_scanned(eng, sc) ==
    IF sc.n = VALID_ALARM_SCAN
    THEN [valid |-> systime_SetAlarm(sc.clock, "Alarm_callback").ret,
          eng |-> [eng EXCEPT
                      !.alarm = systime_SetAlarm(sc.clock, "Alarm_callback").countdown],
          shown |-> [what |-> "alarm at",
                     clock |-> AlarmAt(sc.clock, systime_GetTime(eng.tick))]]
    ELSE [valid |-> FALSE, eng |-> eng, shown |-> Nothing]

SetAlarm(eng, alarm_str) == SetAlarm_scanned(eng, sscanf_clock(alarm_str))

\* the three loops of QueryCheck over query_str
RECURSIVE SkipBlanksTo(_, _, _)
SkipBlanksTo(mem, i, length) ==
    IF i <= length /\ mem[i] = " " THEN SkipBlanksTo(mem, i + 1, length) ELSE i

RECURSIVE SkipWord(_, _, _)
SkipWord(mem, i, length) ==
    IF i < length /\ mem[i] # " " THEN SkipWord(mem, i + 1, length) ELSE i

RECURSIVE SkipBlanks(_, _, _)
SkipBlanks(mem, i, length) ==
    IF i < length /\ mem[i] = " " THEN SkipBlanks(mem, i + 1, length) ELSE i

Min(a, b) == IF a < b THEN a ELSE b

\* QueryCheck's tokenizing: where the keyword starts (k), where its terminator
\* is written (e), where the set data starts (a; -1 stands for NULL), and every
\* index of query_str it read or wrote
Tokens(length, k, e, a) ==
    [keyword |-> k,
     term |-> e,
     set_data |-> IF a < length THEN a ELSE -1,
     touched |-> (0..Min(k, length))
                 \cup (k..Min(e, length - 1))
                 \cup {e}
                 \cup ((e + 1)..Min(a, length - 1))]

TokenizeWord(mem, length, k, e) == Tokens(length, k, e, SkipBlanks(mem, e + 1, length))

TokenizeFrom(mem, length, k) == TokenizeWord(mem, length, k, SkipWord(mem, k, length))

Tokenize(mem, length) == TokenizeFrom(mem, length, SkipBlanksTo(mem, 0, length))

\* the branches of QueryCheck on the keyword: [valid, eng, shown]
Branch(keyword, isset, set_data, eng) ==
    IF keyword = TIME_QUERY
    THEN IF isset THEN SetTime(eng, set_data)
         ELSE [valid |-> TRUE, eng |-> eng, shown |-> DisplayTime(eng)]
    ELSE IF keyword = DATE_QUERY
    THEN IF isset THEN SetDate(eng, set_data)
         ELSE [valid |-> TRUE, eng |-> eng, shown |-> DisplayDate(eng)]
    ELSE IF keyword = ALARM_QUERY
    THEN IF isset THEN SetAlarm(eng, set_data)
         ELSE [valid |-> TRUE,
               eng |-> [eng EXCEPT !.alarm = systime_ClearAlarm(eng.alarm)],
               shown |-> [what |-> "alarm cleared"]]
    ELSE [valid |-> FALSE, eng |-> eng, shown |-> Nothing]

Checked(keyword, isset, mem, tok, r) ==
    [valid |-> r.valid,
     cmd |-> IF keyword \in {TIME_QUERY, DATE_QUERY, ALARM_QUERY}
             THEN <<keyword, isset>> ELSE <<>>,
     eng |-> r.eng,
     shown |-> r.shown,
     data |-> [k \in 0..(Capacity - 1) |-> mem[k]],
     touched |-> tok.touched]

Decode(keyword, isset, set_data, mem, tok, eng) ==
    Checked(keyword, isset, mem, tok, Branch(keyword, isset, set_data, eng))

\* mem is query_str with the keyword's terminator written
Terminated(mem, tok, eng) ==
    Decode(CStr(mem, tok.keyword),
           tok.set_data # -1,
           IF tok.set_data = -1 THEN <<>> ELSE CStr(mem, tok.set_data),
           mem, tok, eng)

Tokenized(mem, tok, eng) == Terminated([mem EXCEPT ![tok.term] = NUL], tok, eng)

QueryCheck_mem(mem, length, eng) == Tokenized(mem, Tokenize(mem, length), eng)

\* QueryCheck on the storage d holding an entry of the given length, b being
\* the byte that follows the storage: [valid, cmd, eng, shown, data, touched]
QueryCheck(d, length, b, eng) == QueryCheck_mem(Mem(d, b), length, eng)

(***************************************************************************)
(* The inputs the operations are called with.                              *)
(***************************************************************************)
HourIn == {23, 24}
MinIn == {59, 60}
SecIn == {59, 60}
TsecIn == {8, 9, 10}
ClockIn ==
    {Clock(h, m, s, t) : h \in HourIn, m \in MinIn, s \in SecIn, t \in TsecIn}
    \cup {Clock(0, 0, 0, 0), Clock(255, 255, 255, 255)}

YearIn == {1900, 2020, 9998, 9999}
MonthIn == {0, 2, 12, 13}
DayIn == {0, 28, 29, 31, 32}
DateIn == {Date(y, m, d) : y \in YearIn, m \in MonthIn, d \in DayIn}

AlarmIn == {Clock(0, 0, 0, 0), Clock(0, 0, 0, 1), Clock(0, 0, 0, 2), Clock(23, 59, 59, 9)}

(***************************************************************************)
(* The time engine's operations as steps.                                  *)
(***************************************************************************)
DoSetTime(c) ==
    LET r == systime_SetTime(tick, c)
    IN  /\ tick' = r.value
        /\ op' = "SetTime"
        /\ ret' = r.ret
        /\ epoch' = IF r.ret THEN r.value ELSE epoch
        /\ rolls' = IF r.ret THEN 0 ELSE rolls
        /\ UNCHANGED <<date, alarm, nticks, fired, since>>
        /\ UNCHANGED <<qvars, cvars, rvars>>

DoSetDate(d) ==
    LET r == systime_SetDate(date, d)
    IN  /\ date' = r.date
        /\ op' = "SetDate"
        /\ ret' = r.ret
        /\ UNCHANGED <<tick, alarm, epoch, rolls, nticks, fired, since>>
        /\ UNCHANGED <<qvars, cvars, rvars>>

DoSetAlarm(c) ==
    LET r == systime_SetAlarm(c, "Alarm_callback")
    IN  /\ alarm' = r.countdown
        /\ op' = "SetAlarm"
        /\ ret' = r.ret
        /\ fired' = 0
        /\ since' = 0
        /\ UNCHANGED <<tick, date, epoch, rolls, nticks>>
        /\ UNCHANGED <<qvars, cvars, rvars>>

DoClearAlarm ==
    /\ alarm' = systime_ClearAlarm(alarm)
    /\ op' = "ClearAlarm"
    /\ ret' = TRUE
    /\ UNCHANGED <<tick, date, epoch, rolls, nticks, fired, since>>
    /\ UNCHANGED <<qvars, cvars, rvars>>

\* the interrupt's work on the engine
SysTick_Interrupt ==
    /\ nticks < MaxTicks
    /\ nticks' = nticks + 1
    /\ tick' = SysTick_Counter(tick)
    /\ date' = IF CounterHit(tick) THEN counter_cb(date) ELSE date
    /\ alarm' = SysTick_Countdown(alarm)
    /\ fired' = IF CountdownHit(alarm) THEN fired + 1 ELSE fired
    /\ since' = since + 1
    /\ op' = "Tick"
    /\ ret' = TRUE
    /\ epoch' = epoch + 1
    /\ rolls' = IF CounterHit(tick) THEN rolls + 1 ELSE rolls

SysTick_Handler ==
    /\ SysTick_Interrupt
    /\ UNCHANGED <<qvars, cvars, rvars>>

TimeInit ==
    /\ systime_init
    /\ op = "init"
    /\ ret = TRUE
    /\ epoch = 0
    /\ rolls = 0
    /\ nticks = 0
    /\ fired = 0
    /\ since = 0

\* QueryHandler_Init: circular_buffer_init on storage that is static, so zeroed
QueryHandler_Init ==
    /\ data = [k \in 0..(Capacity - 1) |-> NUL]
    /\ typed = [k \in 0..(Capacity - 1) |-> NUL]
    /\ wr_ptr = 0
    /\ entry_ptr = 0

\* main, up to its loop
MainInit ==
    /\ TimeInit
    /\ QueryHandler_Init
    /\ rx = <<>>
    /\ wire = <<>>
    /\ pc = "main"
    /\ keys = 0
    /\ disp = [cmd |-> <<>>, shown |-> Nothing, touched |-> {}]

Idle == [at |-> "idle"]

\* no target has been stored by set_alarm
NeverArmed == [target |-> 0, ran |-> 0, stale |-> TRUE]

Init ==
    /\ MainInit
    /\ fn = "none"
    /\ arg = Nothing
    /\ val = Nothing
    /\ call = Idle
    /\ torn = FALSE
    /\ armed = NeverArmed

\* the clock and the calendar: set_time, set_date and the tick interrupt
TimeNext ==
    \/ \E c \in ClockIn : DoSetTime(c)
    \/ \E d \in DateIn : DoSetDate(d)
    \/ SysTick_Handler

SpecTime == Init /\ [][TimeNext]_vars

\* the times of day the alarm is set and cleared at
AlarmTimeIn == {Clock(0, 0, 0, 0), Clock(23, 59, 59, 8), Clock(23, 59, 59, 9)}

\* the alarm: set_alarm, clear_alarm and the tick interrupt, at any time of day
AlarmNext ==
    \/ \E c \in AlarmTimeIn : DoSetTime(c)
    \/ \E c \in AlarmIn : DoSetAlarm(c)
    \/ DoClearAlarm
    \/ SysTick_Handler

SpecAlarm == Init /\ [][AlarmNext]_vars

(***************************************************************************)
(* The main loop's calls into systime with the tick interrupt between      *)
(* their loads and stores.  The counter's value is one aligned 32-bit      *)
(* word, read and written in one access.  A date_t is three fields in four *)
(* bytes aligned to two: `time.date = *new_date` and `*ret_date =          *)
(* time.date` are one word access, two halfword accesses or one access per *)
(* field, as the build has it; nothing in systime.c masks the interrupt.   *)
(***************************************************************************)
Fields == {"year", "month", "day"}

CopyPlans ==
    { << {"year", "month", "day"} >>,
      << {"year"}, {"month", "day"} >>,
      << {"year"}, {"month"}, {"day"} >> }

\* the fields of the group copied, the others as they were
Copied(to, from, group) == [f \in Fields |-> IF f \in group THEN from[f] ELSE to[f]]

RaceDateIn == {Date(2020, 2, 29), Date(2021, 12, 31), Date(2021, 2, 29)}

\* systime_SetDate up to its assignment
SetDate_Enter(d, plan) ==
    /\ call.at \in {"idle", "returned"}
    /\ IF systime_SetDate(date, d).ret
       THEN /\ call' = [at |-> "systime_SetDate", new_date |-> d, old |-> date,
                        plan |-> plan, k |-> 0]
            /\ UNCHANGED <<op, ret>>
       ELSE /\ call' = [at |-> "returned", fn |-> "systime_SetDate"]
            /\ op' = "SetDate"
            /\ ret' = FALSE
    /\ UNCHANGED <<tick, date, alarm, epoch, rolls, nticks, fired, since, torn, armed>>
    /\ UNCHANGED <<qvars, cvars>>

\* one store of time.date = *new_date
SetDate_Store ==
    /\ call.at = "systime_SetDate"
    /\ date' = Copied(date, call.new_date, call.plan[call.k + 1])
    /\ IF call.k + 1 = Len(call.plan)
       THEN /\ call' = [at |-> "returned", fn |-> "systime_SetDate"]
            /\ op' = "SetDate"
            /\ ret' = TRUE
       ELSE /\ call' = [call EXCEPT !.k = call.k + 1]
            /\ UNCHANGED <<op, ret>>
    /\ UNCHANGED <<tick, alarm, epoch, rolls, nticks, fired, since, torn, armed>>
    /\ UNCHANGED <<qvars, cvars>>

\* systime_GetDate up to its assignment; seen is every date the engine holds
\* from here to the return
GetDate_Enter(plan) ==
    /\ call.at \in {"idle", "returned"}
    /\ call' = [at |-> "systime_GetDate", ret_date |-> Date(0, 0, 0), seen |-> {date},
                plan |-> plan, k |-> 0]
    /\ UNCHANGED <<tvars, torn, armed>>
    /\ UNCHANGED <<qvars, cvars>>

\* one load of *ret_date = time.date
GetDate_Load ==
    /\ call.at = "systime_GetDate"
    /\ IF call.k + 1 = Len(call.plan)
       THEN /\ call' = [at |-> "returned", fn |-> "systime_GetDate", seen |-> call.seen,
                        value |-> Copied(call.ret_date, date, call.plan[call.k + 1])]
            /\ op' = "GetDate"
            /\ ret' = TRUE
       ELSE /\ call' = [call EXCEPT
                            !.k = call.k + 1,
                            !.ret_date = Copied(call.ret_date, date, call.plan[call.k + 1])]
            /\ UNCHANGED <<op, ret>>
    /\ UNCHANGED <<tick, date, alarm, epoch, rolls, nticks, fired, since, torn, armed>>
    /\ UNCHANGED <<qvars, cvars>>

\* systime_GetTime: one load of the counter's value, then the conversion
GetTime_Call ==
    /\ call.at \in {"idle", "returned"}
    /\ call' = [at |-> "returned", fn |-> "systime_GetTime",
                seen |-> {systime_ConvertTickCounter(tick)},
                value |-> systime_GetTime(tick)]
    /\ op' = "GetTime"
    /\ ret' = TRUE
    /\ UNCHANGED <<tick, date, alarm, epoch, rolls, nticks, fired, since, torn, armed>>
    /\ UNCHANGED <<qvars, cvars>>

\* systime_SetTime: validation, then one store of the counter's value
SetTime_Call(c) ==
    /\ call.at \in {"idle", "returned"}
    /\ call' = [at |-> "returned", fn |-> "systime_SetTime"]
    /\ tick' = systime_SetTime(tick, c).value
    /\ op' = "SetTime"
    /\ ret' = systime_SetTime(tick, c).ret
    /\ epoch' = IF systime_SetTime(tick, c).ret THEN systime_SetTime(tick, c).value ELSE epoch
    /\ rolls' = IF systime_SetTime(tick, c).ret THEN 0 ELSE rolls
    /\ UNCHANGED <<date, alarm, nticks, fired, since, torn, armed>>
    /\ UNCHANGED <<qvars, cvars>>

\* the tick interrupt, wherever the main loop is
SysTick_Preempts ==
    /\ SysTick_Interrupt
    /\ call' = IF call.at = "systime_GetDate"
               THEN [call EXCEPT !.seen = call.seen \cup {date'}]
               ELSE call
    /\ torn' = \/ torn
               \/ /\ CounterHit(tick)
                  /\ call.at = "systime_SetDate"
                  /\ date \notin {call.old, call.new_date}
    /\ UNCHANGED <<armed, qvars, cvars>>

RaceNext ==
    \/ \E d \in RaceDateIn, plan \in CopyPlans : SetDate_Enter(d, plan)
    \/ SetDate_Store
    \/ \E plan \in CopyPlans : GetDate_Enter(plan)
    \/ GetDate_Load
    \/ GetTime_Call
    \/ \E c \in AlarmTimeIn : SetTime_Call(c)
    \/ SysTick_Preempts

SpecRace == Init /\ [][RaceNext]_vars

(***************************************************************************)
(* systime_SetAlarm and systime_ClearAlarm with the tick interrupt between *)
(* their stores.  Each store is one aligned access to one field of the     *)
(* countdown; the stores are taken in the order of the statements.         *)
(***************************************************************************)
\* systime_SetAlarm storing the enable flag first
SetAlarm_Stores_EnableFirst == <<"en", "cb", "value">>

\* the fields of the countdown in the order systime_SetAlarm assigns them
SetAlarm_Stores == <<"cb", "value", "en">>

\* the only callback the monitor arms the alarm with
Alarm_callback == "Alarm_callback"

\* systime_SetAlarm up to its first assignment; ticks counts the interrupts
\* taken before it returns
SetAlarm_Enter(c) ==
    /\ call.at \in {"idle", "returned"}
    /\ call' = [at |-> "systime_SetAlarm", new |-> systime_SetAlarm(c, Alarm_callback).countdown,
                k |-> 0, ticks |-> 0]
    /\ UNCHANGED <<tvars, torn, armed>>
    /\ UNCHANGED <<qvars, cvars>>

\* one assignment of systime_SetAlarm
SetAlarm_Store ==
    /\ call.at = "systime_SetAlarm"
    /\ alarm' = [alarm EXCEPT ![SetAlarm_Stores[call.k + 1]] = call.new[SetAlarm_Stores[call.k + 1]]]
    /\ IF SetAlarm_Stores[call.k + 1] = "value"
       THEN /\ armed' = [target |-> call.new.value, ran |-> 0, stale |-> FALSE]
            /\ fired' = 0
            /\ since' = 0
       ELSE UNCHANGED <<armed, fired, since>>
    /\ IF call.k + 1 = Len(SetAlarm_Stores)
       THEN /\ call' = [at |-> "returned", fn |-> "systime_SetAlarm", ticks |-> call.ticks]
            /\ op' = "SetAlarm"
            /\ ret' = TRUE
       ELSE /\ call' = [call EXCEPT !.k = call.k + 1]
            /\ UNCHANGED <<op, ret>>
    /\ UNCHANGED <<tick, date, epoch, rolls, nticks, torn>>
    /\ UNCHANGED <<qvars, cvars>>

\* systime_ClearAlarm: one assignment
ClearAlarm_Call ==
    /\ call.at \in {"idle", "returned"}
    /\ call' = [at |-> "returned", fn |-> "systime_ClearAlarm"]
    /\ alarm' = systime_ClearAlarm(alarm)
    /\ armed' = [armed EXCEPT !.stale = TRUE]
    /\ op' = "ClearAlarm"
    /\ ret' = TRUE
    /\ UNCHANGED <<tick, date, epoch, rolls, nticks, fired, since, torn>>
    /\ UNCHANGED <<qvars, cvars>>

\* the tick interrupt, wherever set_alarm is
SysTick_WhileArming ==
    /\ SysTick_Interrupt
    /\ armed' = IF alarm.en THEN [armed EXCEPT !.ran = armed.ran + 1] ELSE armed
    /\ call' = IF call.at = "systime_SetAlarm"
               THEN [call EXCEPT !.ticks = call.ticks + 1]
               ELSE call
    /\ UNCHANGED <<torn, qvars, cvars>>

ArmNext ==
    \/ \E c \in AlarmIn : SetAlarm_Enter(c)
    \/ SetAlarm_Store
    \/ ClearAlarm_Call
    \/ SysTick_WhileArming

SpecArm == Init /\ [][ArmNext]_vars

(***************************************************************************)
(* What the operator types, a burst of bytes at a time.                    *)
(***************************************************************************)
ESC == "ESC"
CursorKey(code) == <<ESC, "[", code>>
KeyHeld(c) == [k \in 1..Capacity |-> c]

\* spaces up to four bytes before the end of the storage
Pad == [k \in 1..(Capacity - 4) |-> " "]

\* keywords in mixed case between spaces
PaddedKeywords ==
    { <<" ", " ", "t", "i", "M", "e", " ", " ">>,
      <<" ", "D", "a", "t", "e", " ">>,
      <<" ", "a", "L", "A", "R", "M", " ">> }

\* well-formed commands with a field out of range, with their Enter
RangeErrors ==
    { <<"t", "i", "m", "e", " ", "2", "4", ":", "0", ":", "0", ".", "0", "CR">>,
      <<"d", "a", "t", "e", " ", "3", "1", "-", "f", "e", "b", "-", "9", "9", "CR">>,
      <<"d", "a", "t", "e", " ", "1", "-", "x", "y", "z", "-", "9", "9", "CR">>,
      <<"a", "l", "a", "r", "m", " ", "2", "4", ":", "0", ":", "0", ".", "0", "CR">> }

Bursts ==
    PaddedKeywords \cup RangeErrors \cup {Pad, <<ESC>>} \cup
    { <<"t", "i", "m", "e", " ", "1", ":", "1", ":", "1", ".", "1">>,
      <<"d", "a", "t", "e", " ", "1", "-", "f", "e", "b", "-", "2", "0", "2", "0">>,
      <<"a", "l", "a", "r", "m", " ", "0", ":", "0", ":", "0", ".", "1">>,
      <<"t", "i", "m", "e">>,
      <<" ">>, <<"x">>,
      KeyHeld("x"), KeyHeld(" "),
      <<"BS">>, <<"DEL">>, <<"CR">>, <<"LF">>,
      CursorKey("A"), CursorKey("B"), CursorKey("C"), CursorKey("D") }

\* the byte after the storage, when QueryCheck reads that far
BeyondIn == {NUL, " "}

KeyIn(burst) ==
    /\ keys < MaxKeys
    /\ wire = <<>>
    /\ wire' = burst
    /\ keys' = keys + 1
    /\ UNCHANGED <<data, wr_ptr, entry_ptr, rx, pc, disp, typed>>
    /\ UNCHANGED <<tvars, cvars, rvars>>

\* the receive interrupt: one byte into uart.rx
UART0_Rx ==
    /\ wire # <<>>
    /\ Len(rx) < RxDepth
    /\ rx' = Append(rx, Head(wire))
    /\ wire' = Tail(wire)
    /\ UNCHANGED <<data, wr_ptr, entry_ptr, pc, keys, disp, typed>>
    /\ UNCHANGED <<tvars, cvars, rvars>>

buffer_size(buf) == Len(buf)

\* QueryHandler_Update, case '\b', 0x7F
Update_Erase ==
    /\ Head(rx) \in {"BS", "DEL"}
    /\ rx' = Tail(rx)
    /\ IF wr_ptr > 0
       THEN wr_ptr' = wr_ptr - 1 /\ entry_ptr' = entry_ptr - 1
       ELSE UNCHANGED <<wr_ptr, entry_ptr>>
    /\ op' = "erase"
    /\ ret' = (wr_ptr > 0)
    /\ UNCHANGED <<data, wire, pc, keys, disp, typed>>
    /\ UNCHANGED <<tick, date, alarm, epoch, rolls, nticks, fired, since>>
    /\ UNCHANGED <<cvars, rvars>>

\* the commit case rewinding the cursor alone
Committed_KeepLength(q) ==
    /\ data' = q.data
    /\ tick' = q.eng.tick
    /\ date' = q.eng.date
    /\ alarm' = q.eng.alarm
    /\ ret' = q.valid
    /\ disp' = [cmd |-> q.cmd, shown |-> q.shown, touched |-> q.touched]
    /\ epoch' = IF q.eng.tick # tick THEN q.eng.tick ELSE epoch
    /\ rolls' = IF q.eng.tick # tick THEN 0 ELSE rolls
    /\ fired' = IF q.shown.what = "alarm at" THEN 0 ELSE fired
    /\ since' = IF q.shown.what = "alarm at" THEN 0 ELSE since
    /\ entry_ptr' = entry_ptr
    /\ wr_ptr' = 0

\* QueryHandler_Update, case '\r', '\n'; q is what QueryCheck did
Committed(q) ==
    /\ data' = q.data
    /\ tick' = q.eng.tick
    /\ date' = q.eng.date
    /\ alarm' = q.eng.alarm
    /\ ret' = q.valid
    /\ disp' = [cmd |-> q.cmd, shown |-> q.shown, touched |-> q.touched]
    /\ epoch' = IF q.eng.tick # tick THEN q.eng.tick ELSE epoch
    /\ rolls' = IF q.eng.tick # tick THEN 0 ELSE rolls
    /\ fired' = IF q.shown.what = "alarm at" THEN 0 ELSE fired
    /\ since' = IF q.shown.what = "alarm at" THEN 0 ELSE since
    /\ entry_ptr' = 0
    /\ wr_ptr' = 0

Engine == [tick |-> tick, date |-> date, alarm |-> alarm]

Update_Commit ==
    /\ Head(rx) \in {"CR", "LF"}
    /\ rx' = Tail(rx)
    /\ \E b \in BeyondIn : Committed(QueryCheck(data, entry_ptr, b, Engine))
    /\ op' = "commit"
    /\ UNCHANGED <<wire, pc, keys, nticks, typed>>
    /\ UNCHANGED <<cvars, rvars>>

\* QueryHandler_Update, case 0x1B: into CursorCodeCheck
Update_Escape ==
    /\ Head(rx) = ESC
    /\ rx' = Tail(rx)
    /\ pc' = "esc"
    /\ op' = "escape"
    /\ ret' = TRUE
    /\ UNCHANGED <<data, wr_ptr, entry_ptr, wire, keys, disp, typed>>
    /\ UNCHANGED <<tick, date, alarm, epoch, rolls, nticks, fired, since>>
    /\ UNCHANGED <<cvars, rvars>>

\* Inserted with the entry's length following the attempt, not the cursor
Inserted_CountAttempts(r) ==
    /\ data' = r.data
    /\ wr_ptr' = r.wr_ptr
    /\ entry_ptr' = IF entry_ptr < wr_ptr + 1 THEN wr_ptr + 1 ELSE entry_ptr
    /\ ret' = r.ok

\* QueryHandler_Update, default; r is what enqueuec_s did
Inserted(r) ==
    /\ data' = r.data
    /\ wr_ptr' = r.wr_ptr
    /\ entry_ptr' = IF entry_ptr < r.wr_ptr THEN r.wr_ptr ELSE entry_ptr
    /\ ret' = r.ok

\* Update_Insert storing the byte as received
Update_Insert_AsTyped ==
    /\ Head(rx) \notin {"BS", "DEL", "CR", "LF", ESC}
    /\ rx' = Tail(rx)
    /\ Inserted(enqueuec_s(data, wr_ptr, Head(rx)))
    /\ typed' = IF wr_ptr < Capacity THEN [typed EXCEPT ![wr_ptr] = Head(rx)] ELSE typed
    /\ op' = "insert"
    /\ UNCHANGED <<wire, pc, keys, disp>>
    /\ UNCHANGED <<tick, date, alarm, epoch, rolls, nticks, fired, since>>
    /\ UNCHANGED <<cvars, rvars>>

Update_Insert ==
    /\ Head(rx) \notin {"BS", "DEL", "CR", "LF", ESC}
    /\ rx' = Tail(rx)
    /\ Inserted(enqueuec_s(data, wr_ptr, toupper(Head(rx))))
    /\ typed' = IF wr_ptr < Capacity THEN [typed EXCEPT ![wr_ptr] = Head(rx)] ELSE typed
    /\ op' = "insert"
    /\ UNCHANGED <<wire, pc, keys, disp>>
    /\ UNCHANGED <<tick, date, alarm, epoch, rolls, nticks, fired, since>>
    /\ UNCHANGED <<cvars, rvars>>

\* main's loop: if (buffer_size(&uart.rx)) QueryHandler_Update(&uart.rx)
Polled == pc = "main" /\ buffer_size(rx) > 0

QueryHandler_Update ==
    \/ Polled /\ Update_Erase
    \/ Polled /\ Update_Commit
    \/ Polled /\ Update_Escape
    \/ Polled /\ Update_Insert

\* CursorMove with 'C' moving right whatever the entry's length
CursorMove_RightUnchecked(code, wr, entry) ==
    CASE code = "A" -> [wr_ptr |-> wr, moved |-> TRUE]
      [] code = "B" -> [wr_ptr |-> IF wr < entry THEN entry ELSE wr, moved |-> TRUE]
      [] code = "C" -> [wr_ptr |-> wr + 1, moved |-> TRUE]
      [] code = "D" -> [wr_ptr |-> IF wr > 0 THEN wr - 1 ELSE wr, moved |-> wr > 0]
      [] OTHER -> [wr_ptr |-> wr, moved |-> FALSE]

\* CursorMove with 'B' leaving the cursor where it is
CursorMove_DownStays(code, wr, entry) ==
    CASE code = "A" -> [wr_ptr |-> wr, moved |-> TRUE]
      [] code = "B" -> [wr_ptr |-> wr, moved |-> TRUE]
      [] code = "C" -> [wr_ptr |-> IF wr < entry THEN wr + 1 ELSE wr, moved |-> wr < entry]
      [] code = "D" -> [wr_ptr |-> IF wr > 0 THEN wr - 1 ELSE wr, moved |-> wr > 0]
      [] OTHER -> [wr_ptr |-> wr, moved |-> FALSE]

\* the cursor after the escape code: [wr_ptr, moved]
CursorMove(code, wr, entry) ==
    CASE code = "A" -> [wr_ptr |-> wr, moved |-> TRUE]
      [] code = "B" -> [wr_ptr |-> IF wr < entry THEN entry ELSE wr, moved |-> TRUE]
      [] code = "C" -> [wr_ptr |-> IF wr < entry THEN wr + 1 ELSE wr, moved |-> wr < entry]
      [] code = "D" -> [wr_ptr |-> IF wr > 0 THEN wr - 1 ELSE wr, moved |-> wr > 0]
      [] OTHER -> [wr_ptr |-> wr, moved |-> FALSE]

\* CursorCodeCheck taking the code alone from uart.rx
CursorCodeCheck_OneByte ==
    /\ pc = "esc"
    /\ ~(buffer_size(rx) < 1)
    /\ wr_ptr' = CursorMove(rx[1], wr_ptr, entry_ptr).wr_ptr
    /\ ret' = CursorMove(rx[1], wr_ptr, entry_ptr).moved
    /\ rx' = Tail(rx)
    /\ pc' = "main"
    /\ op' = "cursor"
    /\ UNCHANGED <<data, entry_ptr, wire, keys, disp, typed>>
    /\ UNCHANGED <<tick, date, alarm, epoch, rolls, nticks, fired, since>>
    /\ UNCHANGED <<cvars, rvars>>

\* CursorCodeCheck waiting for one byte more than it takes
CursorCodeCheck_ThreeBytes ==
    /\ pc = "esc"
    /\ ~(buffer_size(rx) < 3)
    /\ wr_ptr' = CursorMove(rx[2], wr_ptr, entry_ptr).wr_ptr
    /\ ret' = CursorMove(rx[2], wr_ptr, entry_ptr).moved
    /\ rx' = Tail(Tail(rx))
    /\ pc' = "main"
    /\ op' = "cursor"
    /\ UNCHANGED <<data, entry_ptr, wire, keys, disp, typed>>
    /\ UNCHANGED <<tick, date, alarm, epoch, rolls, nticks, fired, since>>
    /\ UNCHANGED <<cvars, rvars>>

\* CursorCodeCheck, once the two bytes of the code are in uart.rx
CursorCodeCheck ==
    /\ pc = "esc"
    /\ ~(buffer_size(rx) < 2)
    /\ LET esc_seq == [sqbkrt |-> rx[1], code |-> rx[2]]
           m == CursorMove(esc_seq.code, wr_ptr, entry_ptr)
       IN  /\ wr_ptr' = m.wr_ptr
           /\ ret' = m.moved
    /\ rx' = Tail(Tail(rx))
    /\ pc' = "main"
    /\ op' = "cursor"
    /\ UNCHANGED <<data, entry_ptr, wire, keys, disp, typed>>
    /\ UNCHANGED <<tick, date, alarm, epoch, rolls, nticks, fired, since>>
    /\ UNCHANGED <<cvars, rvars>>

\* the operator, the receive interrupt and the main loop
QueryNext ==
    \/ \E burst \in Bursts : KeyIn(burst)
    \/ UART0_Rx
    \/ QueryHandler_Update
    \/ CursorCodeCheck

SpecQuery == Init /\ [][QueryNext]_vars

(***************************************************************************)
(* The monitor as a whole: the main loop with both interrupts.  The        *)
(* receive interrupt takes every byte on the wire, and the main loop       *)
(* leaves CursorCodeCheck's wait once its condition is false.              *)
(***************************************************************************)
MonitorBursts ==
    { <<"t", "i", "m", "e", " ", "2", "3", ":", "5", "9", ":", "5", "9", ".", "9", "CR">>,
      <<"a", "l", "a", "r", "m", " ", "0", ":", "0", ":", "0", ".", "1", "CR">>,
      <<"x">>, <<"BS">>, <<ESC>>, CursorKey("D") }

MonitorNext ==
    \/ \E burst \in MonitorBursts : KeyIn(burst)
    \/ UART0_Rx
    \/ QueryHandler_Update
    \/ CursorCodeCheck
    \/ SysTick_Handler

SpecMonitor ==
    /\ Init
    /\ [][MonitorNext]_vars
    /\ WF_vars(UART0_Rx)
    /\ WF_vars(CursorCodeCheck)

(***************************************************************************)
(* The conversions on their own: an input is drawn, then the function is   *)
(* applied to it.                                                          *)
(***************************************************************************)
ConvClockIn ==
    {Clock(h, m, sc, t) : h \in {0, 1, 12, 22, 23}, m \in {0, 1, 30, 58, 59},
                          sc \in {0, 1, 30, 58, 59}, t \in 0..9}

ConvYearIn == (1890..2110) \cup (2390..2410) \cup {0, 4, 100, 400, 9996, 9998, 65535}

ConvMonthIn == {[month |-> m, year |-> y] : m \in 1..12, y \in ConvYearIn}

\* the clock entered with ALARM and the time of day it is entered at
ConvAlarmClockIn ==
    {Clock(h, m, sc, t) : h \in {0, 23}, m \in {0, 59}, sc \in {0, 59}, t \in {0, 1, 9}}

ConvAlarmIn ==
    {[clock_temp |-> a, current_time |-> c] : a \in ConvAlarmClockIn, c \in ConvAlarmClockIn}

\* the dates the callback can find: every day of every month of these years
ConvDateYearIn == {0, 1900, 2000, 2020, 2021, 2100, 9997, 9998}

ConvDateIn ==
    {d \in {Date(y, m, dd) : y \in ConvDateYearIn, m \in 1..MONTH_IN_YEAR, dd \in 1..31} :
        d.day <= DaysInMonth(d.month - 1, d.year)}

ConvInit ==
    /\ MainInit
    /\ fn = "none"
    /\ arg \in ConvClockIn \cup ConvMonthIn \cup ConvAlarmIn \cup ConvDateIn
    /\ call = Idle
    /\ torn = FALSE
    /\ armed = NeverArmed
    /\ val = Nothing

Apply_ConvertClock ==
    /\ fn = "none"
    /\ arg \in ConvClockIn
    /\ fn' = "systime_ConvertClock"
    /\ val' = [ticks |-> systime_ConvertClock(arg)]
    /\ UNCHANGED <<arg, tvars, qvars, rvars>>

Apply_ConvertTickCounter ==
    /\ fn = "systime_ConvertClock"
    /\ fn' = "systime_ConvertTickCounter"
    /\ val' = [ticks |-> val.ticks, clock |-> systime_ConvertTickCounter(val.ticks)]
    /\ UNCHANGED <<arg, tvars, qvars, rvars>>

\* the callers pass month - 1
Apply_DaysInMonth ==
    /\ fn = "none"
    /\ arg \in ConvMonthIn
    /\ fn' = "DaysInMonth"
    /\ val' = [days |-> DaysInMonth(arg.month - 1, arg.year)]
    /\ UNCHANGED <<arg, tvars, qvars, rvars>>

\* SetAlarm's echo of the time the alarm is due
Apply_AlarmAt ==
    /\ fn = "none"
    /\ arg \in ConvAlarmIn
    /\ fn' = "SetAlarm"
    /\ val' = [clock |-> AlarmAt(arg.clock_temp, arg.current_time)]
    /\ UNCHANGED <<arg, tvars, qvars, rvars>>

\* one call of the day-rollover callback on the stored date
Apply_IncDate ==
    /\ fn = "none"
    /\ arg \in ConvDateIn
    /\ fn' = "systime_IncDate_callback"
    /\ val' = [date |-> counter_cb(arg)]
    /\ UNCHANGED <<arg, tvars, qvars, rvars>>

ConvNext ==
    \/ Apply_ConvertClock
    \/ Apply_ConvertTickCounter
    \/ Apply_DaysInMonth
    \/ Apply_AlarmAt
    \/ Apply_IncDate

SpecConv == ConvInit /\ [][ConvNext]_vars

(***************************************************************************)
(* The calendar, stated apart from the program's table.                    *)
(***************************************************************************)
LeapYear(y) == y % 4 = 0 /\ (y % 400 = 0 \/ y % 100 # 0)

MonthLength(m, y) ==
    CASE m \in {4, 6, 9, 11} -> 30
      [] m = 2 -> IF LeapYear(y) THEN 29 ELSE 28
      [] OTHER -> 31

ValidDate(d) ==
    /\ d.month \in 1..12
    /\ d.day \in 1..MonthLength(d.month, d.year)

ClockInRange(c) == c.hour < 24 /\ c.min < 60 /\ c.sec < 60 /\ c.t_sec < 10

TicksOf(c) == c.hour * 36000 + c.min * 600 + c.sec * 10 + c.t_sec

(***************************************************************************)
(* C1: in every reachable state, after systime_init and any sequence of   *)
(* successful or failed set_date calls and day-rollover callbacks, the    *)
(* stored date has 1 <= month <= 12 and 1 <= day <= the leap-year-aware    *)
(* length of that month.                                                   *)
(***************************************************************************)
C1_DateValid == ValidDate(date)

\* the rollover callback has carried 29-FEB-2020 into March
C1_Witness == op = "Tick" /\ rolls = 1 /\ date = Date(2020, 3, 1)

(***************************************************************************)
(* C2: from any installed time of day, the tick count between ticks is in  *)
(* [0, TSEC_IN_DAY): after n ticks from an installed time t0 it is         *)
(* (t0 + n) mod TSEC_IN_DAY, and the date-increment callback has run       *)
(* exactly (t0 + n) div TSEC_IN_DAY times, once per full day of ticks.     *)
(***************************************************************************)
C2_OneRolloverPerDay ==
    /\ tick \in 0..(864000 - 1)
    /\ tick = epoch % 864000
    /\ rolls = epoch \div 864000

\* a time installed by set_time has run through midnight and one tick beyond
C2_Witness == op = "Tick" /\ rolls = 1 /\ tick = 1 /\ epoch = 864001

(***************************************************************************)
(* C3: set_time with a field out of range returns failure and leaves the   *)
(* tick count unchanged; with every field in range it returns success and  *)
(* the tick count becomes the tick conversion of the clock.                *)
(***************************************************************************)
C3_SetTimeContract ==
    [][\A c \in ClockIn :
          DoSetTime(c) =>
              IF ClockInRange(c)
              THEN ret' = TRUE /\ tick' = TicksOf(c)
              ELSE ret' = FALSE /\ tick' = tick]_vars

\* a refused set_time after the clock had been set to 23:59:59.9
C3_Witness == op = "SetTime" /\ ret = FALSE /\ tick = 863999

(***************************************************************************)
(* C4: set_date succeeds and replaces the date wholesale iff year < 9999,  *)
(* month is in 1..12 and day is in 1..length of the month in that year;    *)
(* otherwise it returns failure and the stored date is unchanged.          *)
(***************************************************************************)
C4_SetDateContract ==
    [][\A d \in DateIn :
          DoSetDate(d) =>
              IF d.year < 9999 /\ ValidDate(d)
              THEN ret' = TRUE /\ date' = d
              ELSE ret' = FALSE /\ date' = date]_vars

\* 29-FEB of a leap year was accepted, then a later set_date was refused
C4_Witness == op = "SetDate" /\ ret = FALSE /\ date = Date(2020, 2, 29)

(***************************************************************************)
(* C5: after every step of any sequence of insert, erase, commit and       *)
(* cursor-motion operations on the edit buffer,                            *)
(* cursor <= entry_length <= capacity.                                     *)
(***************************************************************************)
C5_CursorInvariant == 0 <= wr_ptr /\ wr_ptr <= entry_ptr /\ entry_ptr <= Capacity

\* an erase in the middle of an entry that had filled the buffer
C5_Witness ==
    op = "erase" /\ ret = TRUE /\ wr_ptr < entry_ptr /\ entry_ptr = Capacity - 1

(***************************************************************************)
(* C6: dispatch on commit depends only on the bytes in                     *)
(* buffer[0..entry_length): when a commit byte is about to be handled, the *)
(* command executed, its result, what it prints and the engine state it    *)
(* leaves are those of the same entry in a buffer holding nothing at or    *)
(* beyond entry_length.                                                    *)
(***************************************************************************)
CommitDue == Polled /\ Head(rx) \in {"CR", "LF"}

Cleared(d, length) == [k \in 0..(Capacity - 1) |-> IF k < length THEN d[k] ELSE NUL]

SameDispatch(q1, q2) ==
    /\ q1.valid = q2.valid
    /\ q1.cmd = q2.cmd
    /\ q1.eng = q2.eng
    /\ q1.shown = q2.shown

C6_ResidueIgnored ==
    CommitDue =>
        SameDispatch(QueryCheck(data, entry_ptr, NUL, Engine),
                     QueryCheck(Cleared(data, entry_ptr), entry_ptr, NUL, Engine))

(***************************************************************************)
(* C7, as claimed: when the edit buffer already holds capacity characters  *)
(* (entry_length = capacity), inserting one more byte is refused, and      *)
(* storage, cursor and entry_length are unchanged.                         *)
(***************************************************************************)
InsertStep == Polled /\ Update_Insert

C7_FullBufferRefuses ==
    [][(InsertStep /\ entry_ptr = Capacity) =>
          (ret' = FALSE /\ UNCHANGED <<data, wr_ptr, entry_ptr>>)]_vars

(***************************************************************************)
(* C7, amended: when the cursor is at capacity, inserting one more byte is *)
(* refused, and storage, cursor and entry_length are unchanged; an insert  *)
(* with the cursor before capacity stores the byte, uppercased, under the  *)
(* cursor, inside the storage, and advances the cursor by one, the entry's *)
(* length growing only to the cursor.                                      *)
(***************************************************************************)
C7_CursorAtCapacityRefuses ==
    [][InsertStep =>
          IF wr_ptr = Capacity
          THEN ret' = FALSE /\ UNCHANGED <<data, wr_ptr, entry_ptr>>
          ELSE /\ ret' = TRUE
               /\ wr_ptr \in 0..(Capacity - 1)
               /\ DOMAIN data' = 0..(Capacity - 1)
               /\ \A k \in 0..(Capacity - 1) :
                     data'[k] = IF k = wr_ptr THEN toupper(Head(rx)) ELSE data[k]
               /\ wr_ptr' = wr_ptr + 1
               /\ entry_ptr' = IF entry_ptr > wr_ptr THEN entry_ptr ELSE wr_ptr + 1]_vars

\* one more byte after the buffer was filled: refused
C7_Witness ==
    op = "insert" /\ ret = FALSE /\ wr_ptr = Capacity /\ entry_ptr = Capacity

(***************************************************************************)
(* C8: for every committed line, every index that dispatch reads or writes *)
(* while tokenizing, the write of the keyword's terminator included, lies  *)
(* inside the buffer's storage [0, capacity).                              *)
(***************************************************************************)
C8_TokenizeInBounds == disp.touched \subseteq 0..(Capacity - 1)

(***************************************************************************)
(* C9: for every clock with hour in 0..23, minute in 0..59, second in      *)
(* 0..59 and tenth in 0..9, the clock's tick count is in [0, TSEC_IN_DAY)  *)
(* and converting it back yields the same clock.                           *)
(***************************************************************************)
C9_ClockRoundTrip ==
    /\ fn = "systime_ConvertClock" => val.ticks \in 0..(864000 - 1)
    /\ fn = "systime_ConvertTickCounter" => val.clock = arg

\* 23:59:59.9 went to the last tick of the day and back
C9_Witness ==
    /\ fn = "systime_ConvertTickCounter"
    /\ arg = Clock(23, 59, 59, 9)
    /\ val.ticks = 863999

(***************************************************************************)
(* C10: for every year, DaysInMonth for February is 29 iff year % 4 = 0    *)
(* and (year % 400 = 0 or year % 100 # 0), and 28 otherwise; every other   *)
(* month has the same length in every year.                                *)
(***************************************************************************)
C10_FebruaryLength ==
    fn = "DaysInMonth" =>
        IF arg.month = 2
        THEN val.days = IF arg.year % 4 = 0 /\ (arg.year % 400 = 0 \/ arg.year % 100 # 0)
                        THEN 29 ELSE 28
        ELSE \A y \in ConvYearIn : DaysInMonth(arg.month - 1, y) = val.days

\* February of 1900, a century that is not a leap year
C10_Witness ==
    fn = "DaysInMonth" /\ arg = [month |-> 2, year |-> 1900] /\ val.days = 28

(***************************************************************************)
(* C11: a committed line that is a keyword typed in any letter case, with  *)
(* any number of spaces before and after it, is dispatched as the bare     *)
(* uppercase keyword is: same command, same result, same output and same   *)
(* effect on the engine.                                                   *)
(***************************************************************************)
Keywords == {TIME_QUERY, DATE_QUERY, ALARM_QUERY}

\* the entry as it was typed
EntryTyped == [k \in 1..entry_ptr |-> typed[k - 1]]

IsPaddedKeyword(line, kw) ==
    \E i \in 0..Len(line) :
        /\ i + Len(kw) <= Len(line)
        /\ \A k \in 1..Len(line) :
              IF k > i /\ k <= i + Len(kw)
              THEN toupper(line[k]) = kw[k - i]
              ELSE line[k] = " "

\* a zero-filled storage holding the keyword alone
BareStorage(kw) == [k \in 0..(Capacity - 1) |-> IF k < Len(kw) THEN kw[k + 1] ELSE NUL]

C11_PaddedKeywordAsBare ==
    CommitDue =>
        \A kw \in Keywords :
            IsPaddedKeyword(EntryTyped, kw) =>
                \A b \in BeyondIn :
                    SameDispatch(QueryCheck(data, entry_ptr, b, Engine),
                                 QueryCheck(BareStorage(kw), Len(kw), b, Engine))

\* the line "  tiMe  " was committed and displayed the time
C11_Witness ==
    /\ op = "commit"
    /\ ret = TRUE
    /\ disp.cmd = <<TIME_QUERY, FALSE>>
    /\ disp.shown.what = "time"
    /\ typed[0] = " " /\ typed[3] = "i" /\ typed[4] = "M" /\ typed[7] = " "
    /\ typed[8] = NUL

(***************************************************************************)
(* C12: for each keyword, a committed command whose argument is well       *)
(* formed but has a field out of its range is reported as invalid:         *)
(* dispatch returns failure.                                               *)
(***************************************************************************)
\* the entry as it is stored
EntryStored == [k \in 1..entry_ptr |-> data[k - 1]]

RangeErrorLines == {[k \in 1..(Len(l) - 1) |-> toupper(l[k])] : l \in RangeErrors}

CommitStep == Polled /\ Update_Commit

C12_RangeErrorRefused ==
    [][(CommitStep /\ EntryStored \in RangeErrorLines) => ret' = FALSE]_vars

(***************************************************************************)
(* C13: whenever dispatch of a committed line returns failure, the engine  *)
(* state is what it was before the commit: tick count, date and the        *)
(* alarm's enabled flag, target and callback.                              *)
(***************************************************************************)
C13_FailureChangesNothing ==
    [][(CommitStep /\ ret' = FALSE) => UNCHANGED <<tick, date, alarm>>]_vars

\* the date was set to 1-FEB-2020, then a set-date command was refused
C13_Witness ==
    /\ op = "commit"
    /\ ret = FALSE
    /\ disp.cmd = <<DATE_QUERY, TRUE>>
    /\ date = Date(2020, 2, 1)

(***************************************************************************)
(* C14: when an alarm is armed with a valid clock while the current time   *)
(* is a valid clock, the time echoed is the current time plus the entered  *)
(* clock with the carries from tenths to seconds to minutes to hours, the  *)
(* hours modulo 24, so every field shown is in its range.                  *)
(***************************************************************************)
SumOfClocks(a, c) ==
    LET total == TicksOf(a) + TicksOf(c)
    IN  Clock((total \div 36000) % 24, (total \div 600) % 60,
              (total \div 10) % 60, total % 10)

C14_AlarmEchoCarries ==
    fn = "SetAlarm" =>
        /\ ClockInRange(val.clock)
        /\ val.clock = SumOfClocks(arg.clock_temp, arg.current_time)

(***************************************************************************)
(* C15: an alarm armed with a clock equal to d ticks invokes the stored    *)
(* callback exactly once, at the tick that is d ticks after arming (for    *)
(* d = 0, no later than the first tick after arming), also when the tick   *)
(* count wraps to 0 at midnight in between: while the alarm stays armed,   *)
(* the callback has been called once if d ticks have passed and not at all *)
(* before.                                                                 *)
(***************************************************************************)
\* the ticks the alarm was armed with: what is left of them and what has passed
ArmedWith == alarm.value + since

C15_FiresOnceWhenDue ==
    alarm.en =>
        /\ since < ArmedWith => fired = 0
        /\ (since >= ArmedWith /\ since >= 1) => fired = 1

\* the same for the alarms of at least one tick
C15_FiresOnceWhenDue_FromOneTick ==
    (alarm.en /\ ArmedWith >= 1) =>
        fired = IF since >= ArmedWith THEN 1 ELSE 0

\* armed with 0:0:0.1 one tick before midnight, fired on the tick that wrapped
\* the count, and not again on the next
C15_MidnightFired ==
    alarm.en /\ ArmedWith = 1 /\ since = 2 /\ fired = 1 /\ tick = 1 /\ rolls = 1

(***************************************************************************)
(* C16: clear_alarm disables the alarm and changes nothing else, so a      *)
(* second call, or a call with no alarm armed, leaves the state as it is;  *)
(* while the alarm is disabled no tick calls the alarm's callback or       *)
(* moves the countdown.                                                    *)
(***************************************************************************)
C16_ClearedNeverFires ==
    [][/\ DoClearAlarm =>
           /\ alarm' = [alarm EXCEPT !.en = FALSE]
           /\ systime_ClearAlarm(alarm') = alarm'
           /\ UNCHANGED <<tick, date, fired>>
       /\ (SysTick_Handler /\ ~alarm.en) => (fired' = fired /\ alarm' = alarm)]_vars

\* set for two ticks, cleared after one, and silent through the tick it was due
\* on and the one after
C16_Witness ==
    /\ op = "Tick"
    /\ ~alarm.en
    /\ alarm.cb = "Alarm_callback"
    /\ alarm.value = 1
    /\ since = 3
    /\ fired = 0

(***************************************************************************)
(* C17: under every interleaving of the tick interrupt with the main       *)
(* loop's set_time, set_date, get_time and get_date, the rollover callback *)
(* never runs on a half-written date, and what get_time and get_date       *)
(* return is a value the engine held at one instant of the call.           *)
(***************************************************************************)
C17_NoTornValue ==
    /\ ~torn
    /\ (call.at = "returned" /\ call.fn \in {"systime_GetDate", "systime_GetTime"}) =>
           call.value \in call.seen

(***************************************************************************)
(* C18: on an ESC byte the interpreter enters the wait; while it waits no  *)
(* byte leaves the receive buffer; the wait ends only with two bytes       *)
(* there, and taking exactly those two; from the ESC to the end of the     *)
(* wait neither the stored bytes nor the entry's length change.            *)
(***************************************************************************)
C18_EscapeTakesTwoBytes ==
    [][/\ (QueryHandler_Update /\ Head(rx) = ESC) =>
           /\ pc' = "esc"
           /\ rx' = Tail(rx)
           /\ UNCHANGED <<data, entry_ptr, wr_ptr>>
       /\ pc = "esc" =>
           /\ UNCHANGED <<data, entry_ptr>>
           /\ \/ pc' = "esc" /\ rx' = rx
              \/ pc' = "esc" /\ wire # <<>> /\ rx' = Append(rx, Head(wire))
              \/ pc' = "main" /\ Len(rx) >= 2 /\ rx' = Tail(Tail(rx))]_vars

\* an X was typed, then the left arrow: the cursor moved and the entry stayed
C18_Witness ==
    /\ op = "cursor"
    /\ ret = TRUE
    /\ pc = "main"
    /\ data[0] = "X"
    /\ entry_ptr = 1
    /\ wr_ptr = 0

(***************************************************************************)
(* C19: while the interpreter waits for the rest of an escape sequence     *)
(* both interrupts stay enabled: a tick is handled whenever one is due     *)
(* (the tick count advances, the day rolls over, the alarm fires) and a    *)
(* byte on the wire is received whenever uart.rx has room; so once the     *)
(* two bytes have been typed, the wait ends.                               *)
(***************************************************************************)
Waiting == pc = "esc"

C19_InterruptsDuringWait ==
    /\ [](Waiting =>
            /\ nticks < MaxTicks => ENABLED SysTick_Handler
            /\ (wire # <<>> /\ Len(rx) < RxDepth) => ENABLED UART0_Rx)
    /\ [][(Waiting /\ SysTick_Handler) =>
            /\ tick' = (tick + 1) % 864000
            /\ rolls' = IF tick' = 0 THEN rolls + 1 ELSE rolls
            /\ fired' = IF alarm.en /\ alarm.value = 1 THEN fired + 1 ELSE fired
            /\ Waiting']_vars
    /\ ((Waiting /\ Len(rx) + Len(wire) >= 2) ~> ~Waiting)

\* a tick handled during the wait rolled the day over and fired the alarm
C19_Witness ==
    /\ Waiting
    /\ op = "Tick"
    /\ rolls = 1
    /\ fired = 1
    /\ date = Date(0, 1, 2)

(***************************************************************************)
(* C20: in every reachable state, after any sequence of set_date calls and *)
(* day-rollover callbacks, the stored date's year is in 0..9998.           *)
(***************************************************************************)
C20_YearBelowMax == date.year \in 0..(MAX_YEAR - 1)

(***************************************************************************)
(* C21: one call of the day-rollover callback on a valid date gives the    *)
(* calendar successor: day + 1 within the month; on the last day of a      *)
(* month (28-FEB in a common year, 29-FEB in a leap year) day 1 of the     *)
(* next month; on 31-DEC day 1, month 1 of the next year; no other field   *)
(* changes.                                                                *)
(***************************************************************************)
Successor(d) ==
    IF d.day < MonthLength(d.month, d.year)
    THEN [year |-> d.year, month |-> d.month, day |-> d.day + 1]
    ELSE IF d.month < 12
         THEN [year |-> d.year, month |-> d.month + 1, day |-> 1]
         ELSE [year |-> d.year + 1, month |-> 1, day |-> 1]

C21_CalendarSuccessor ==
    (fn = "systime_IncDate_callback" /\ ValidDate(arg)) => val.date = Successor(arg)

C21_Witness ==
    /\ fn = "systime_IncDate_callback"
    /\ arg = Date(2100, 2, 28)
    /\ val.date = Date(2100, 3, 1)
(***************************************************************************)
(* C22: every commit byte (CR or LF) handled in the normal input state     *)
(* leaves cursor = 0 and entry_length = 0, whether dispatch succeeded or   *)
(* failed; a commit byte that follows at once is then dispatched on an     *)
(* empty entry, which is no command and changes nothing in the engine.     *)
(***************************************************************************)
C22_CommitResets ==
    /\ [][CommitStep => (wr_ptr' = 0 /\ entry_ptr' = 0)]_vars
    /\ [][(CommitStep /\ entry_ptr = 0) =>
             (ret' = FALSE /\ disp'.shown = Nothing /\ UNCHANGED <<tick, date, alarm>>)]_vars

\* a line that was typed has been committed and refused, and the cursor and
\* the length are 0 over what it left in the storage
C22_Witness ==
    /\ op = "commit"
    /\ ret = FALSE
    /\ wr_ptr = 0
    /\ entry_ptr = 0
    /\ data[0] # NUL
    /\ keys >= 2
(***************************************************************************)
(* C23: a cursor-motion escape code changes only the cursor: right ('C')   *)
(* advances it by one iff cursor < entry_length, left ('D') retreats it by *)
(* one iff cursor > 0, down ('B') sets it to entry_length, up ('A') leaves *)
(* it; at a boundary the cursor is unchanged; in every case entry_length,  *)
(* the stored bytes and the engine are unchanged.                          *)
(***************************************************************************)
CodeStep(code) == Waiting /\ Len(rx) >= 2 /\ rx[2] = code /\ CursorCodeCheck

C23_CursorCodesMoveCursorOnly ==
    /\ [][CodeStep("C") => wr_ptr' = IF wr_ptr < entry_ptr THEN wr_ptr + 1 ELSE wr_ptr]_vars
    /\ [][CodeStep("D") => wr_ptr' = IF wr_ptr > 0 THEN wr_ptr - 1 ELSE wr_ptr]_vars
    /\ [][CodeStep("B") => wr_ptr' = entry_ptr]_vars
    /\ [][CodeStep("A") => wr_ptr' = wr_ptr]_vars
    /\ [][(Waiting /\ CursorCodeCheck) => UNCHANGED <<data, entry_ptr, tick, date, alarm>>]_vars

\* TIME was typed and a cursor code has left the cursor one before the end,
\* the entry as long as it was
C23_Witness ==
    /\ op = "cursor"
    /\ ret = TRUE
    /\ wr_ptr = 3
    /\ entry_ptr = 4
    /\ data[0] = "T" /\ data[3] = "E"
(***************************************************************************)
(* C24: under every interleaving of the tick interrupt with set_alarm and  *)
(* clear_alarm, whenever the alarm is enabled its callback is not null and *)
(* its countdown is the target stored by the most recent set_alarm, less   *)
(* the ticks counted on it since, and not one left behind by a cleared     *)
(* alarm; clear_alarm changes the enable flag alone.                       *)
(***************************************************************************)
C24_EnabledAlarmIsWhole ==
    /\ [](alarm.en => /\ alarm.cb # "NULL"
                      /\ ~armed.stale
                      /\ alarm.value = armed.target - armed.ran)
    /\ [][ClearAlarm_Call => (alarm'.cb = alarm.cb /\ alarm'.value = alarm.value)]_vars

\* the interrupt came twice before set_alarm stored the enable flag, and
\* counted nothing off the target it stored
C24_Witness ==
    /\ call.at = "returned"
    /\ call.fn = "systime_SetAlarm"
    /\ call.ticks = 2
    /\ alarm.en
    /\ alarm.value = 1
    /\ armed.ran = 0
====
